---- MODULE Spec2Model ----
(***************************************************************************)
(* A model of the webmention receiver of src/index.js: the request         *)
(* validator, the admission queue with its three gates, and the verifier   *)
(* that the 500 ms timer starts (pop, fetch, body read, store update, file *)
(* write), each await of which is a point where other handlers run.        *)
(*                                                                         *)
(* Strings are sequences of tokens, so that startsWith and includes are    *)
(* computed: "https://b.example/page" is <<"https://","b.example/","page">>*)
(***************************************************************************)
EXTENDS Integers, Sequences, FiniteSets, Bags, TLC

VARIABLES
    queue,      \* index.js:147  let queue = []
    received,   \* index.js:134  received.webmentions, the Store collection
    failures,   \* index.js:135  source -> failure count, 0 when the key is absent
    allowList,  \* index.js:15,144  ALLOWED_TARGET_BASE_URLS
    now,        \* Date.now()
    runs,       \* the bag of validateMention() calls suspended at an await
    files,      \* the contents of mentionsFile and failureFile on disk
    crashed,    \* the process was ended by an unhandled promise rejection
    pops,       \* how many items the verifier has popped so far
    accepted,   \* how many submissions were answered 202 so far (counted up
                \* to MaxAccepted)
    waiting,    \* the admissions whose fetch has not started, each with its
                \* number in the order of the 202 answers
    last        \* the handler that ran last, with its input and its answer

vars == <<queue, received, failures, allowList, now, runs, files, crashed, pops,
          accepted, waiting, last>>

----------------------------------------------------------------------------
(* Bounds of the model *)

\* The verifier pops at most MaxPops items in one behaviour.
MaxPops == 2
\* The clock advances at most MaxClock times, half a freshness window each.
MaxClock == 2
\* Where behaviours are not bounded by MaxPops: the runs suspended at once
MaxRuns == 2
\* The 202 answers are counted up to MaxAccepted.  While the verifier pops at
\* most MaxPops items no more can be given: the queue holds a pair once, and
\* there are two pairs.
MaxAccepted == MaxPops + 2

----------------------------------------------------------------------------
(* Program constants *)

\* index.js:167  failedValidations > 5
FAILURE_BUDGET == 5
\* index.js:176  24 * 60 * 60 * 1000
FRESHNESS_WINDOW == 24 * 60 * 60 * 1000
\* The step of the model's clock: half the window, so that an elapsed time is
\* 0, or within the window, or the window exactly
ClockStep == FRESHNESS_WINDOW \div 2

----------------------------------------------------------------------------
(* Strings *)

\* What payload.get() gives for a parameter that is not in the body
NULL == <<"<null>">>
EMPTY == <<>>

A == <<"https://", "a.example/", "post">>
B == <<"https://", "b.example/", "page">>
C == <<"http://", "c.example/", "x">>
FtpB == <<"ftp://", "b.example/", "page">>
NotAUrl == <<"not a url">>
PrefixB == <<"https://", "b.example/">>

Schemes == {"https://", "http://", "ftp://"}

\* String.prototype.startsWith
StartsWith(s, prefix) ==
    /\ Len(prefix) <= Len(s)
    /\ SubSeq(s, 1, Len(prefix)) = prefix

\* String.prototype.includes
Includes(s, part) ==
    \E i \in 1..(Len(s) + 1) :
        /\ i + Len(part) - 1 <= Len(s)
        /\ SubSeq(s, i, i + Len(part) - 1) = part

\* URL.canParse with no base: an absolute URL has a scheme and, after it, a host
CanParse(s) ==
    /\ s # NULL
    /\ Len(s) >= 2
    /\ s[1] \in Schemes

\* The bodies the fetched source page may have
Bodies ==
    { <<"<html>">>,
      <<"<a href=">> \o B \o <<">">>,
      <<"<a href=">> \o C \o <<">">>,
      PrefixB \o <<"other">> }

----------------------------------------------------------------------------
(* Requests *)

FORM == "application/x-www-form-urlencoded"

Req(m, h, ct, s, t) ==
    [method |-> m, headers |-> h, contentType |-> ct, source |-> s, target |-> t]

Post(s, t) == Req("POST", TRUE, FORM, s, t)

GoodRequests == { Post(A, B), Post(A, C) }

BadRequests ==
    { Req("GET", TRUE, FORM, A, B),
      Req("POST", FALSE, "undefined", A, B),
      Req("POST", TRUE, "text/plain", A, B),
      Req("POST", TRUE, "undefined", A, B),
      Post(NULL, B),
      Post(A, NULL),
      Post(A, EMPTY),
      Post(NULL, NULL),
      Post(A, A),
      Post(NotAUrl, B),
      Post(A, NotAUrl),
      Post(A, FtpB) }

\* The endpoint's specification submits all of them; the pipeline's submits
\* one pair, whose runs overlap, and one bad request
AllRequests == GoodRequests \cup BadRequests
Requests == { Post(A, B), Post(A, A) }

AllowLists == { <<>>, <<PrefixB>> }

Sources == {A, B}

\* What the failures file may hold at startup: A absent or at the budget,
\* and for the endpoint also over it
Failures(ofA) == [s \in Sources |-> IF s = A THEN ofA ELSE 3]
InitFailures == { Failures(0), Failures(FAILURE_BUDGET) }
InitFailuresEndpoint == InitFailures \cup { Failures(FAILURE_BUDGET + 1) }

----------------------------------------------------------------------------
(* Request Validator: index.js:17-72 *)

\* toMention gives null when source or target is absent or empty
NoMention == [null |-> TRUE]

\* index.js:61-72.  !payload.get(k) holds for a parameter that is absent and for
\* one that is the empty string.
ToMention(request) ==
    IF \/ request.source = NULL \/ request.source = EMPTY
       \/ request.target = NULL \/ request.target = EMPTY
    THEN NoMention
    ELSE [source |-> request.source, target |-> request.target]

PredicateIndexes == 1..9

\* Whether evaluating BAD_REQUEST_PREDICATES[i] reads a property of undefined or
\* null, which throws a TypeError.
PredicateThrows(i, request, mention) ==
    CASE i = 3 -> ~request.headers
      [] i \in 5..9 -> mention = NoMention
      [] OTHER -> FALSE

\* The list without ({ mention }) => !mention, as if the later predicates
\* could rely on a mention
BadRequestPredicateNoNullCheck(i, request, mention) ==
    CASE i = 1 -> request.method # "POST"
      [] i = 2 -> ~request.headers
      [] i = 3 -> request.contentType # FORM
      [] i = 4 -> FALSE
      [] i = 5 -> mention.target = mention.source
      [] i = 6 -> ~CanParse(mention.source)
      [] i = 7 -> ~CanParse(mention.target)
      [] i = 8 -> /\ Len(allowList) > 0
                  /\ ~\E k \in 1..Len(allowList) :
                         StartsWith(mention.target, allowList[k])
      [] i = 9 -> ~(\/ StartsWith(mention.target, <<"https://">>)
                    \/ StartsWith(mention.target, <<"http://">>))

\* index.js:17-40, one predicate of the list (defined where it does not throw)
BadRequestPredicate(i, request, mention) ==
    CASE i = 1 -> request.method # "POST"
      [] i = 2 -> ~request.headers
      [] i = 3 -> request.contentType # FORM
      [] i = 4 -> mention = NoMention
      [] i = 5 -> mention.target = mention.source
      [] i = 6 -> ~CanParse(mention.source)
      [] i = 7 -> ~CanParse(mention.target)
      [] i = 8 -> /\ Len(allowList) > 0
                  /\ ~\E k \in 1..Len(allowList) :
                         StartsWith(mention.target, allowList[k])
      [] i = 9 -> ~(\/ StartsWith(mention.target, <<"https://">>)
                    \/ StartsWith(mention.target, <<"http://">>))

\* Array.prototype.some over the list from index i on: the predicates are called
\* in order and the first that returns true ends the evaluation.
RECURSIVE SomeBad(_, _, _)
SomeBad(i, request, mention) ==
    IF i \notin PredicateIndexes THEN "false"
    ELSE IF PredicateThrows(i, request, mention) THEN "throw"
    ELSE IF BadRequestPredicate(i, request, mention) THEN "true"
    ELSE SomeBad(i + 1, request, mention)

\* index.js:42-59 with DEBUG = false (index.js:11): "valid", "bad", or "throw"
\* when a predicate throws
IsValid(request, mention) ==
    LET isBadRequest == SomeBad(1, request, mention)
    IN  CASE isBadRequest = "false" -> "valid"
          [] isBadRequest = "true" -> "bad"
          [] OTHER -> "throw"

----------------------------------------------------------------------------
(* Admission: index.js:152-182 *)

\* index.js:152-157
IsDuplicate(mention, existing) ==
    /\ existing.source = mention.source
    /\ existing.target = mention.target

\* Array.prototype.find: the index of the first duplicate of mention, 0 if none
FindDuplicate(list, mention) ==
    LET hits == { i \in 1..Len(list) : IsDuplicate(mention, list[i]) }
    IN  IF hits = {} THEN 0
        ELSE CHOOSE i \in hits : \A j \in hits : i <= j

\* isEnqueueable without its first gate
IsEnqueueableNoQueueGate(mention) ==
    LET failedValidations == failures[mention.source]
        alreadyValidated == FindDuplicate(received, mention)
    IN  IF failedValidations # 0 /\ failedValidations > FAILURE_BUDGET
        THEN FALSE
        ELSE IF /\ alreadyValidated # 0
                /\ now - received[alreadyValidated].validatedAt < FRESHNESS_WINDOW
        THEN FALSE
        ELSE TRUE

\* isEnqueueable with >= for > in its second gate
IsEnqueueableBudgetOffByOne(mention) ==
    LET alreadyEnqueued == FindDuplicate(queue, mention)
        failedValidations == failures[mention.source]
        alreadyValidated == FindDuplicate(received, mention)
    IN  IF alreadyEnqueued # 0 THEN FALSE
        ELSE IF failedValidations # 0 /\ failedValidations >= FAILURE_BUDGET
        THEN FALSE
        ELSE IF /\ alreadyValidated # 0
                /\ now - received[alreadyValidated].validatedAt < FRESHNESS_WINDOW
        THEN FALSE
        ELSE TRUE

\* isEnqueueable with <= for < in its third gate
IsEnqueueableWindowOffByOne(mention) ==
    LET alreadyEnqueued == FindDuplicate(queue, mention)
        failedValidations == failures[mention.source]
        alreadyValidated == FindDuplicate(received, mention)
    IN  IF alreadyEnqueued # 0 THEN FALSE
        ELSE IF failedValidations # 0 /\ failedValidations > FAILURE_BUDGET
        THEN FALSE
        ELSE IF /\ alreadyValidated # 0
                /\ now - received[alreadyValidated].validatedAt <= FRESHNESS_WINDOW
        THEN FALSE
        ELSE TRUE

\* index.js:159-182
IsEnqueueable(mention) ==
    LET alreadyEnqueued == FindDuplicate(queue, mention)
        failedValidations == failures[mention.source]
        alreadyValidated == FindDuplicate(received, mention)
    IN  IF alreadyEnqueued # 0 THEN FALSE
        ELSE IF failedValidations # 0 /\ failedValidations > FAILURE_BUDGET
        THEN FALSE
        ELSE IF /\ alreadyValidated # 0
                /\ now - received[alreadyValidated].validatedAt < FRESHNESS_WINDOW
        THEN FALSE
        ELSE TRUE

----------------------------------------------------------------------------
(* HTTP endpoint: index.js:88-110 *)

\* Answer with 202 given to a valid submission that is not enqueueable
AnswerAcceptsAll(request, mention) ==
    LET valid == IsValid(request, mention)
    IN  IF valid = "throw" THEN 500
        ELSE IF valid = "valid" THEN 202
        ELSE 400

\* index.js:94-104, and 106-109 when the handler throws
Answer(request, mention) ==
    LET valid == IsValid(request, mention)
    IN  IF valid = "throw" THEN 500
        ELSE IF valid = "valid"
        THEN IF IsEnqueueable(mention) THEN 202 ELSE 500
        ELSE 400

\* index.js:91-105: the callback that runs once the body has arrived
Receive(request) ==
    /\ ~crashed
    /\ LET mention == ToMention(request)
           status == Answer(request, mention)
       IN  /\ queue' = IF status = 202 THEN Append(queue, mention) ELSE queue
           /\ accepted' = IF status = 202 /\ accepted < MaxAccepted
                          THEN accepted + 1
                          ELSE accepted
           /\ waiting' = IF status = 202
                         THEN waiting \cup {[mention |-> mention, ticket |-> accepted']}
                         ELSE waiting
           /\ last' = [op |-> "submit", request |-> request, status |-> status]
    /\ UNCHANGED <<received, failures, allowList, now, runs, files, crashed, pops>>

----------------------------------------------------------------------------
(* Verifier: index.js:184-256 *)

\* What fetch(mention.source) settles with: a rejection, which the .catch of
\* index.js:193 turns into undefined, or a response with a status
Undefined == [undefined |-> TRUE]
Statuses == {200, 404, 410}
Responses == {Undefined} \cup { [status |-> s] : s \in Statuses }

\* response?.ok
Ok(response) == response # Undefined /\ response.status \in 200..299

\* The 410 branch taken also when the fetch gave no response
GoneOrNoResponse(response) == response = Undefined \/ response.status = 410

\* response?.status === 410
Gone(response) == response # Undefined /\ response.status = 410

\* JSON.stringify(received), index.js:218 and 238
Stringify(webmentions) == [webmentions |-> webmentions]

\* An assignment existing.key = value to an object property, new or not
SetField(object, key, value) ==
    [k \in DOMAIN object \cup {key} |-> IF k = key THEN value ELSE object[k]]

\* index.js:208-213: the entry of a fetched page
MentionedEntry(mention, isMentioned, at) ==
    [source |-> mention.source, target |-> mention.target,
     validated |-> TRUE, mentioned |-> isMentioned, validatedAt |-> at]

\* index.js:228-233: the entry of a page that is gone
DeletedEntry(mention, at) ==
    [source |-> mention.source, target |-> mention.target,
     validated |-> TRUE, deleted |-> TRUE, validatedAt |-> at]

\* What the notifications file may hold at startup
MentionAB == [source |-> A, target |-> B]
MentionAC == [source |-> A, target |-> C]
InitStores == { <<>>, <<DeletedEntry(MentionAC, 0)>> }
InitStoresEndpoint ==
    InitStores \cup { <<MentionedEntry(MentionAB, TRUE, 0)>>,
                      <<MentionedEntry(MentionAB, TRUE, 0), DeletedEntry(MentionAC, 0)>> }

\* The store update of the earlier draft (unnamed/part_000:199-204), which
\* appends whether or not the pair has an entry
UpsertMentionedAppends(mention, isMentioned) ==
    Append(received, MentionedEntry(mention, isMentioned, now))

\* The store update recording every fetched page as one that mentions
UpsertMentionedAlways(mention, isMentioned) ==
    LET existing == FindDuplicate(received, mention)
    IN  IF existing # 0
        THEN [received EXCEPT ![existing] =
                 SetField(SetField(@, "validatedAt", now), "isMentioned", isMentioned)]
        ELSE Append(received, MentionedEntry(mention, TRUE, now))

\* index.js:201-214
UpsertMentioned(mention, isMentioned) ==
    LET existing == FindDuplicate(received, mention)
    IN  IF existing # 0
        THEN [received EXCEPT ![existing] =
                 SetField(SetField(@, "validatedAt", now), "isMentioned", isMentioned)]
        ELSE Append(received, MentionedEntry(mention, isMentioned, now))

\* index.js:221-234
UpsertDeleted(mention) ==
    LET existing == FindDuplicate(received, mention)
    IN  IF existing # 0
        THEN [received EXCEPT ![existing] =
                 SetField(SetField(@, "validatedAt", now), "deleted", TRUE)]
        ELSE Append(received, DeletedEntry(mention, now))

\* The failure step raising the counter of every source, not of one
CountFailureEverySource(source) ==
    [s \in Sources |-> failures[s] + 1]

\* The counter starting over at 1 once it has passed the budget
CountFailureResets(source) ==
    [failures EXCEPT ![source] = IF @ > FAILURE_BUDGET THEN 1 ELSE @ + 1]

\* The counter set to 1 on every failure, never raised
CountFailureNoIncrement(source) ==
    [failures EXCEPT ![source] = 1]

\* index.js:241-245
CountFailure(source) ==
    IF failures[source] = 0
    THEN [failures EXCEPT ![source] = 1]
    ELSE [failures EXCEPT ![source] = @ + 1]

\* A run of validateMention that is suspended at an await: at the fetch, at
\* response.text(), or at writeFile(file, data)
Run(mention, phase, file, data) ==
    [mention |-> mention, phase |-> phase, file |-> file, data |-> data]

\* The suspended runs, as a bag: runs have no identity beyond what they hold
Suspended == BagToSet(runs)
Resume(run) == runs (-) SetToBag({run})
Suspend(bag, run) == bag (+) SetToBag({run})

NoFile == "none"
NoData == <<>>

\* The admission that a fetch of the pair now started answers: of those of the
\* pair that wait, the earliest (none if none waits)
Earliest(mention) ==
    LET admissions == { w \in waiting : w.mention = mention }
    IN  { w \in admissions : \A v \in admissions : w.ticket <= v.ticket }

\* validateMention taking the item from the tail of the queue (queue.pop())
ValidateMentionPopsTail ==
    IF queue = <<>>
    THEN /\ last' = [op |-> "idle"]
         /\ UNCHANGED <<queue, runs, waiting>>
    ELSE /\ queue' = SubSeq(queue, 1, Len(queue) - 1)
         /\ runs' = Suspend(runs, Run(queue[Len(queue)], "fetch", NoFile, NoData))
         /\ waiting' = waiting \ Earliest(queue[Len(queue)])
         /\ last' = [op |-> "pop", mention |-> queue[Len(queue)]]

\* validateMention reading the head of the queue and leaving it there (queue[0])
ValidateMentionPeeks ==
    IF queue = <<>>
    THEN /\ last' = [op |-> "idle"]
         /\ UNCHANGED <<queue, runs, waiting>>
    ELSE /\ queue' = queue
         /\ runs' = Suspend(runs, Run(Head(queue), "fetch", NoFile, NoData))
         /\ waiting' = waiting \ Earliest(Head(queue))
         /\ last' = [op |-> "pop", mention |-> Head(queue)]

\* index.js:184-193: validateMention up to its first await.  It returns at
\* once when the queue is empty, and otherwise pops the head and starts the
\* fetch.
ValidateMentionStarts ==
    IF queue = <<>>
    THEN /\ last' = [op |-> "idle"]
         /\ UNCHANGED <<queue, runs, waiting>>
    ELSE /\ queue' = Tail(queue)
         /\ runs' = Suspend(runs, Run(Head(queue), "fetch", NoFile, NoData))
         /\ waiting' = waiting \ Earliest(Head(queue))
         /\ last' = [op |-> "pop", mention |-> Head(queue)]

\* index.js:254-256: the timer calls validateMention; the call is not awaited,
\* so the next tick does not wait for the run it started.  At most MaxPops
\* items are popped.
Tick ==
    /\ ~crashed
    /\ queue # <<>> => pops < MaxPops
    /\ ValidateMentionStarts
    /\ pops' = IF queue = <<>> THEN pops ELSE pops + 1
    /\ UNCHANGED <<received, failures, allowList, now, files, crashed, accepted>>

\* The same tick, bounded by the number of runs suspended at once instead of
\* by the number of pops: behaviours go on for ever.
TickWhileFewRuns ==
    /\ ~crashed
    /\ queue # <<>> => BagCardinality(runs) < MaxRuns
    /\ ValidateMentionStarts
    /\ UNCHANGED <<received, failures, allowList, now, files, crashed, pops, accepted>>

\* index.js:191-195, 220-251: the fetch of a run settles and the run goes on to
\* its next await: response.text() on 2xx, writeFile otherwise.
FetchSettles(run, response) ==
    /\ ~crashed
    /\ run \in Suspended
    /\ run.phase = "fetch"
    /\ LET mention == run.mention
       IN  /\ IF Ok(response)
              THEN /\ runs' = Suspend(Resume(run), Run(mention, "text", NoFile, NoData))
                   /\ UNCHANGED <<received, failures>>
              ELSE IF Gone(response)
              THEN /\ received' = UpsertDeleted(mention)
                   /\ runs' = Suspend(Resume(run),
                         Run(mention, "write", "mentions", Stringify(received')))
                   /\ UNCHANGED failures
              ELSE /\ failures' = CountFailure(mention.source)
                   /\ runs' = Suspend(Resume(run),
                         Run(mention, "write", "failures", failures'))
                   /\ UNCHANGED received
           /\ last' = [op |-> "fetched", mention |-> mention, response |-> response]
    /\ UNCHANGED <<queue, allowList, now, files, crashed, pops, accepted, waiting>>

\* index.js:196-219: response.text() resolves with the body
TextResolves(run, body) ==
    /\ ~crashed
    /\ run \in Suspended
    /\ run.phase = "text"
    /\ LET mention == run.mention
           isMentioned == Includes(body, mention.target)
       IN  /\ received' = UpsertMentioned(mention, isMentioned)
           /\ runs' = Suspend(Resume(run),
                         Run(mention, "write", "mentions", Stringify(received')))
           /\ last' = [op |-> "read", mention |-> mention, body |-> body]
    /\ UNCHANGED <<queue, failures, allowList, now, files, crashed, pops, accepted, waiting>>

\* index.js:254-256: validateMention() is called without await inside the
\* try, so a rejection of its promise reaches no handler.  Node ends the
\* process on an unhandled rejection, unless it was started with
\* --unhandled-rejections=warn or none.  With the process its memory goes: the
\* queue, the Store, the counters and the suspended runs; the files stay, and
\* nothing waits for a fetch any more.
Unhandled(run) ==
    \E exits \in BOOLEAN :
        /\ crashed' = exits
        /\ IF exits
           THEN /\ queue' = <<>>
                /\ received' = <<>>
                /\ failures' = [s \in Sources |-> 0]
                /\ runs' = EmptyBag
                /\ waiting' = {}
           ELSE /\ runs' = Resume(run)
                /\ UNCHANGED <<queue, received, failures, waiting>>

\* index.js:196: response.text() rejects, and with it the run
TextRejects(run) ==
    /\ ~crashed
    /\ run \in Suspended
    /\ run.phase = "text"
    /\ Unhandled(run)
    /\ last' = [op |-> "end", mention |-> run.mention, how |-> "threw",
                issued |-> {}]
    /\ UNCHANGED <<allowList, now, files, pops, accepted>>

\* index.js:216-219, 236-239, 247-250: writeFile resolves and the run returns
WriteResolves(run) ==
    /\ ~crashed
    /\ run \in Suspended
    /\ run.phase = "write"
    /\ files' = [files EXCEPT ![run.file] = run.data]
    /\ runs' = Resume(run)
    /\ last' = [op |-> "end", mention |-> run.mention, how |-> "returned",
                issued |-> {run.file}]
    /\ UNCHANGED <<queue, received, failures, allowList, now, crashed, pops, accepted, waiting>>

\* index.js:216-219, 236-239, 247-250: writeFile rejects, and with it the run
WriteRejects(run) ==
    /\ ~crashed
    /\ run \in Suspended
    /\ run.phase = "write"
    /\ Unhandled(run)
    /\ last' = [op |-> "end", mention |-> run.mention, how |-> "threw",
                issued |-> {run.file}]
    /\ UNCHANGED <<allowList, now, files, pops, accepted>>

\* Time passes
Advance ==
    /\ ~crashed
    /\ now < MaxClock * ClockStep
    /\ now' = now + ClockStep
    /\ last' = [op |-> "clock"]
    /\ UNCHANGED <<queue, received, failures, allowList, runs, files, crashed, pops,
                   accepted, waiting>>

----------------------------------------------------------------------------
(* The process *)

\* index.js:128-147: both files are read and parsed, the allow-list is read when
\* its file is given, and the queue starts empty.
Start(stores, counters, lists) ==
    /\ queue = <<>>
    /\ received \in stores
    /\ failures \in counters
    /\ allowList \in lists
    /\ now = 0
    /\ runs = EmptyBag
    /\ files = [mentions |-> Stringify(received), failures |-> failures]
    /\ crashed = FALSE
    /\ pops = 0
    /\ accepted = 0
    /\ waiting = {}
    /\ last = [op |-> "start"]

\* Started without an allow-list file
Init == Start(InitStores, InitFailures, {<<>>})

Next ==
    \/ \E request \in Requests : Receive(request)
    \/ Tick
    \/ \E run \in Suspended, response \in Responses : FetchSettles(run, response)
    \/ \E run \in Suspended, body \in Bodies : TextResolves(run, body)
    \/ \E run \in Suspended : TextRejects(run)
    \/ \E run \in Suspended : WriteResolves(run)
    \/ \E run \in Suspended : WriteRejects(run)
    \/ Advance

Spec == Init /\ [][Next]_vars

\* The endpoint and the timer, with every request of AllRequests, with or
\* without an allow-list, and with more in the two files at startup; no fetch
\* settles.
InitEndpoint == Start(InitStoresEndpoint, InitFailuresEndpoint, AllowLists)

NextEndpoint ==
    \/ \E request \in AllRequests : Receive(request)
    \/ Tick
    \/ Advance

EndpointSpec == InitEndpoint /\ [][NextEndpoint]_vars

\* A source whose every fetch fails: all good requests have source A, and a
\* fetch settles with a rejection or with 404.  The timer fires for ever
\* (setInterval, index.js:254), every fetch settles and every write settles.
FailingResponses == { Undefined, [status |-> 404] }

FetchFails == \E run \in Suspended, response \in FailingResponses : FetchSettles(run, response)
WriteSettles == \E run \in Suspended : WriteResolves(run) \/ WriteRejects(run)

NextBroken ==
    \/ \E request \in GoodRequests : Receive(request)
    \/ TickWhileFewRuns
    \/ FetchFails
    \/ WriteSettles

BrokenSpec ==
    /\ Init
    /\ [][NextBroken]_vars
    /\ WF_vars(TickWhileFewRuns)
    /\ WF_vars(FetchFails)
    /\ WF_vars(WriteSettles)

----------------------------------------------------------------------------
(* What the claims speak of *)

\* The last handler was the endpoint's, for a request that passes validation
Submitted == last.op = "submit"
SubmittedValid ==
    /\ Submitted
    /\ IsValid(last.request, ToMention(last.request)) = "valid"
SubmittedMention == ToMention(last.request)

\* The Store entries of a pair
EntriesOf(mention) == { i \in 1..Len(received) : IsDuplicate(mention, received[i]) }
InQueue(mention) == \E i \in 1..Len(queue) : IsDuplicate(mention, queue[i])

\* A Store entry of the pair was validated less than 24 hours ago
Fresh(mention) ==
    \E i \in EntriesOf(mention) : now - received[i].validatedAt < 24 * 60 * 60 * 1000

OverBudget(source) == failures[source] > 5

----------------------------------------------------------------------------
\* C1: every submission is answered with one status: 400 when it fails
\* validation, 202 when it is valid and enqueueable, 500 when it is valid and
\* not enqueueable; the pair is appended to the queue exactly on 202, and on
\* 400 and 500 the queue, the Store and the failure counters do not change.
C1_AnswerAndEffect ==
    [][last'.op = "submit" =>
        LET request == last'.request
            mention == ToMention(request)
            valid == IsValid(request, mention) = "valid"
            status == last'.status
        IN  /\ status \in {202, 400, 500}
            /\ (status = 400) <=> ~valid
            /\ (status = 202) <=> (valid /\ IsEnqueueable(mention))
            /\ (status = 500) <=> (valid /\ ~IsEnqueueable(mention))
            /\ queue' = IF status = 202 THEN Append(queue, mention) ELSE queue
            /\ UNCHANGED <<received, failures>>
    ]_vars

\* A valid submission was answered 500 with a pair waiting in the queue
C1_Witness ==
    /\ SubmittedValid
    /\ last.status = 500
    /\ Len(queue) = 1

\* C2: the queue never holds a pair twice, and a valid submission of a pair
\* that is in the queue is answered 500 (so it is not appended).
C2_QueueHoldsEachPairOnce ==
    /\ \A i, j \in 1..Len(queue) :
           IsDuplicate(queue[i], queue[j]) => i = j
    /\ (SubmittedValid /\ last.status = 202) =>
           ~\E i \in 1..(Len(queue) - 1) : IsDuplicate(SubmittedMention, queue[i])

\* The pair was in the queue, nothing else stood against it, and the answer
\* was 500
C2_Witness ==
    /\ SubmittedValid
    /\ last.status = 500
    /\ InQueue(SubmittedMention)
    /\ ~OverBudget(SubmittedMention.source)
    /\ EntriesOf(SubmittedMention) = {}

\* C4: a valid submission whose source has a failure counter above 5 is
\* answered 500, whatever its target; a counter of 5 or less is no ground for
\* rejection: a valid submission answered 500 with such a counter has its
\* pair in the queue or fresh in the Store.
C4_FailureBudgetGate ==
    SubmittedValid =>
        /\ OverBudget(SubmittedMention.source) => last.status = 500
        /\ (~OverBudget(SubmittedMention.source) /\ last.status = 500) =>
               (InQueue(SubmittedMention) \/ Fresh(SubmittedMention))

\* The source is over its budget, the pair (A, C) is neither queued nor in
\* the Store, and the answer was 500
C4_Witness ==
    /\ SubmittedValid
    /\ last.status = 500
    /\ SubmittedMention.target = C
    /\ OverBudget(SubmittedMention.source)
    /\ ~InQueue(SubmittedMention)
    /\ EntriesOf(SubmittedMention) = {}

\* C5: a valid submission of a pair with a Store entry validated less than
\* 24 hours ago is answered 500, the entry recording a mention or a deletion;
\* once 24 hours have passed the pair is admitted again, unless it is queued
\* or its source is over the failure budget.
C5_FreshnessGate ==
    SubmittedValid =>
        /\ Fresh(SubmittedMention) => last.status = 500
        /\ (/\ EntriesOf(SubmittedMention) # {}
            /\ ~Fresh(SubmittedMention)
            /\ ~OverBudget(SubmittedMention.source)
            /\ last.status # 202) => InQueue(SubmittedMention)

\* A pair recorded as deleted exactly 24 hours ago was admitted again
C5_Witness ==
    /\ SubmittedValid
    /\ last.status = 202
    /\ \E i \in EntriesOf(SubmittedMention) :
           /\ "deleted" \in DOMAIN received[i]
           /\ now - received[i].validatedAt = 24 * 60 * 60 * 1000

----------------------------------------------------------------------------
\* C3: the Store never holds a pair twice: a 2xx or 410 outcome for a pair
\* that has an entry updates that entry in place, leaving the number of
\* entries as it was and the entry's validatedAt at the time of the update,
\* which is not before the one it had; also when two runs for the pair overlap.
C3_StoreHoldsEachPairOnce ==
    [][/\ \A i, j \in 1..Len(received') :
              IsDuplicate(received'[i], received'[j]) => i = j
       /\ \A i \in 1..Len(received) :
              (/\ last'.op \in {"read", "fetched"}
               /\ received' # received
               /\ IsDuplicate(last'.mention, received[i])) =>
                  /\ Len(received') = Len(received)
                  /\ IsDuplicate(last'.mention, received'[i])
                  /\ received'[i].validatedAt = now
                  /\ received'[i].validatedAt >= received[i].validatedAt
    ]_vars

\* Two runs for one pair overlapped: both have updated the Store and await
\* their writes, the second a day after the first, and the Store holds the
\* pair once, with the second run's time
C3_Witness ==
    \E first, second \in Suspended :
        /\ first.mention = second.mention
        /\ first.phase = "write" /\ second.phase = "write"
        /\ first.file = "mentions" /\ second.file = "mentions"
        /\ first.data # second.data
        /\ Len(received) = 1
        /\ IsDuplicate(first.mention, received[1])
        /\ received[1].validatedAt = 24 * 60 * 60 * 1000
        /\ first.data.webmentions[1].validatedAt = 0

----------------------------------------------------------------------------
\* The rejection rules, as the claim lists them, over the request as sent
Missing(value) == value = NULL \/ value = EMPTY
HttpTarget(target) ==
    Len(target) >= 1 /\ target[1] \in {"http://", "https://"}
RejectionRuleHolds(request) ==
    \/ request.method # "POST"
    \/ ~request.headers
    \/ request.contentType # "application/x-www-form-urlencoded"
    \/ Missing(request.source)
    \/ Missing(request.target)
    \/ request.source = request.target
    \/ ~CanParse(request.source)
    \/ ~CanParse(request.target)
    \/ /\ allowList # <<>>
       /\ \A k \in 1..Len(allowList) : ~StartsWith(request.target, allowList[k])
    \/ ~HttpTarget(request.target)

\* C7: a submission is answered 400 exactly when a rejection rule holds (wrong
\* method, headers or content type, source or target missing, source equal
\* to target, source or target no absolute URL, a non-empty allow-list none of
\* whose prefixes starts the target, a target that is not http or https); the
\* evaluation never throws on a missing mention.
C7_RejectedExactlyByRule ==
    Submitted =>
        /\ (last.status = 400) <=> RejectionRuleHolds(last.request)
        /\ IsValid(last.request, ToMention(last.request)) # "throw"
        /\ allowList = <<>> =>
               \A request \in GoodRequests :
                   IsValid(request, ToMention(request)) = "valid"

\* With the allow-list ["https://b.example/"], the well-formed submission of
\* target http://c.example/x was answered 400
C7_Witness ==
    /\ Submitted
    /\ last.status = 400
    /\ allowList = <<PrefixB>>
    /\ last.request = Post(A, C)

----------------------------------------------------------------------------
\* C8: every run the verifier starts by popping an item issues exactly one
\* file write before it ends, whatever the fetch gave, a 2xx response whose
\* body cannot be read included.
C8_ExactlyOneWrite ==
    last.op = "end" => Cardinality(last.issued) = 1

\* C9: whatever fails inside a run of the verifier, the process keeps running.
C9_SchedulerSurvives ==
    ~crashed

\* Fetches of a source are over: none is queued, none is awaited
Quiet(source) ==
    /\ \A i \in 1..Len(queue) : queue[i].source # source
    /\ \A run \in Suspended : run.phase = "fetch" => run.mention.source # source

\* C10: when every fetch of source A fails, then from some point on no fetch
\* of A is queued or awaited any more, however many submissions with source A
\* (and either target) keep arriving: the counter passes 5, admission closes,
\* and what was queued by then drains.
C10_BrokenSourceQuiesces ==
    <>[]Quiet(A)

\* A submission of the broken source was turned away after the entries
\* queued when its counter passed 5 had drained and raised it further
C10_Witness ==
    /\ SubmittedValid
    /\ last.status = 500
    /\ failures[A] > 6
    /\ Quiet(A)
    /\ runs = EmptyBag

----------------------------------------------------------------------------
\* C11: the verifier never overlaps itself: at any time at most one run is
\* between its pop and its completion.
C11_NeverOverlaps ==
    BagCardinality(runs) <= 1

\* The copies of a pair that are in flight: those in the queue and the runs
\* that popped it and have not completed
RunsOf(mention) == [run \in { r \in Suspended : r.mention = mention } |-> runs[run]]
InFlight(mention) ==
    Cardinality({ i \in 1..Len(queue) : IsDuplicate(mention, queue[i]) })
        + BagCardinality(RunsOf(mention))

\* C12: at most one copy of a pair is in flight at once, queued or popped and
\* not yet completed: a pair whose fetch is outstanding is not admitted again.
C12_OneCopyInFlight ==
    \A mention \in {MentionAB, MentionAC} : InFlight(mention) <= 1

\* C13: when the body of a 2xx response is read for a pair that has a Store
\* entry, the entry's mentioned flag becomes whether that body contains the
\* target, and its validatedAt the current time.
C13_MentionedUpdatedInPlace ==
    last.op = "read" =>
        \A i \in EntriesOf(last.mention) :
            /\ received[i].validatedAt = now
            /\ "mentioned" \in DOMAIN received[i]
            /\ received[i].mentioned = Includes(last.body, last.mention.target)

\* C14: every Store entry carries exactly one of the fields mentioned and
\* deleted, whatever outcomes were recorded for its pair before.
C14_OneOutcomeField ==
    \A i \in 1..Len(received) :
        ("mentioned" \in DOMAIN received[i]) # ("deleted" \in DOMAIN received[i])

----------------------------------------------------------------------------
\* An outcome that is neither 2xx nor 410: no response, or another status
FailedOutcome(response) ==
    \/ response = Undefined
    \/ response.status \notin (200..299) \cup {410}

\* The runs suspended at the write of a file
WritesOf(bag, file) ==
    [run \in { r \in BagToSet(bag) : r.phase = "write" /\ r.file = file } |-> bag[run]]

\* C15: on an outcome that is neither 2xx nor 410 the Store and the
\* notifications file stay as they are, the counter of the popped item's
\* source goes up by exactly 1 (to 1 when it was absent), the counters of the
\* other sources stay, and the one write the run issues is of the failures
\* file, with the counters as they are then.
C15_FailurePathFrame ==
    [][/\ (last'.op = "fetched" /\ FailedOutcome(last'.response)) =>
              LET source == last'.mention.source
              IN  /\ received' = received
                  /\ files' = files
                  /\ failures'[source] = failures[source] + 1
                  /\ \A s \in Sources \ {source} : failures'[s] = failures[s]
                  /\ WritesOf(runs', "mentions") = WritesOf(runs, "mentions")
                  /\ WritesOf(runs', "failures") =
                         WritesOf(runs, "failures")
                             (+) SetToBag({Run(last'.mention, "write", "failures", failures')})
       /\ (last'.op = "end" /\ last'.issued = {"failures"}) =>
              /\ files'.mentions = files.mentions
              /\ last'.how = "returned" => UNCHANGED <<received, failures>>
    ]_vars

\* A 404 for source A, whose counter was at the budget: it is now one above,
\* the counter of B is what it was at startup, and the run awaits the write
\* of the failures file
C15_Witness ==
    /\ last.op = "fetched"
    /\ last.response = [status |-> 404]
    /\ last.mention.source = A
    /\ failures = Failures(FAILURE_BUDGET + 1)
    /\ Run(last.mention, "write", "failures", failures) \in Suspended

\* C16: a fetch that throws or rejects is handled as a status that is neither
\* 2xx nor 410 is: one failure is counted for the source, the Store gets no
\* entry, nothing is escalated, and the run goes on to write the failures
\* file.
C16_FetchThrowIsFailure ==
    [][(last'.op = "fetched" /\ last'.response = Undefined) =>
           LET mention == last'.mention
               fetching == Run(mention, "fetch", NoFile, NoData)
               writing == Run(mention, "write", "failures", failures')
           IN  /\ failures' = [failures EXCEPT ![mention.source] = @ + 1]
               /\ received' = received
               /\ crashed' = FALSE
               /\ runs' = (runs (-) SetToBag({fetching})) (+) SetToBag({writing})
               /\ UNCHANGED <<queue, files>>
    ]_vars

\* The fetch of a pair with no Store entry was rejected: the first failure of
\* the source is counted, the Store is still empty, the process runs
C16_Witness ==
    /\ last.op = "fetched"
    /\ last.response = Undefined
    /\ failures[last.mention.source] = 1
    /\ received = <<>>
    /\ ~crashed
    /\ \E run \in Suspended : run.phase = "write" /\ run.file = "failures"

\* C17: while the process runs no counter is lowered or removed; a 2xx or
\* 410 outcome leaves every counter as it is; so a source whose counter has
\* passed 5 stays over the budget, and its valid submissions are answered 500.
C17_CountersNeverDecrease ==
    [][~crashed' =>
           /\ \A source \in Sources :
                  /\ failures'[source] >= failures[source]
                  /\ OverBudget(source) => failures'[source] > 5
           /\ (\/ last'.op = "read"
               \/ last'.op = "fetched" /\ ~FailedOutcome(last'.response)) =>
                  failures' = failures
           /\ (/\ last'.op = "submit"
               /\ IsValid(last'.request, ToMention(last'.request)) = "valid"
               /\ OverBudget(last'.request.source)) => last'.status = 500
    ]_vars

\* A page of a source that is over its budget was fetched and read, and the
\* counter is still over the budget
C17_Witness ==
    /\ last.op = "read"
    /\ OverBudget(last.mention.source)

----------------------------------------------------------------------------
\* C18: items are verified in the order of their admission: admission appends
\* to the tail of the queue and the verifier pops its head, so the fetch that
\* starts is of the admission that has waited longest, before every admission
\* that still waits; a tick pops one item, or none when the queue is empty.
C18_VerifiedInAdmissionOrder ==
    [][/\ (last'.op = "submit" /\ last'.status = 202) =>
              queue' = Append(queue, ToMention(last'.request))
       /\ last'.op = "pop" =>
              /\ queue # <<>>
              /\ last'.mention = Head(queue)
              /\ queue' = Tail(queue)
              /\ runs' = runs (+) SetToBag({Run(last'.mention, "fetch", NoFile, NoData)})
              /\ \E w \in waiting :
                     /\ w.mention = last'.mention
                     /\ waiting' = waiting \ {w}
                     /\ \A v \in waiting' : w.ticket < v.ticket
       /\ last'.op = "idle" =>
              /\ queue = <<>>
              /\ UNCHANGED <<queue, runs, waiting>>
    ]_vars

\* (A, B) was admitted, then (A, C), then, its fetch started, (A, B) again:
\* the second fetch to start is the one of (A, C), and the third admission
\* waits
C18_Witness ==
    /\ last.op = "pop"
    /\ last.mention = MentionAC
    /\ pops = 2
    /\ waiting = {[mention |-> MentionAB, ticket |-> 3]}
    /\ queue = <<MentionAB>>

\* C19, as stated: the fetches started are never more than the 202 answers,
\* and after a failed verification the pair is in neither the queue nor the
\* Store.
C19_GoneAfterFailure ==
    /\ pops <= accepted
    /\ (last.op = "fetched" /\ FailedOutcome(last.response)) =>
           /\ ~InQueue(last.mention)
           /\ EntriesOf(last.mention) = {}

\* C19: each admission causes one fetch: every fetch that starts answers one
\* admission that waited, so that the admissions are those that wait and
\* those whose fetch has started, and the fetches started are never more than
\* the 202 answers; no step of the verifier after the pop puts an item in the
\* queue, and a failed verification adds the pair neither to the queue nor to
\* the Store: the queue grows only when a submission is answered 202.
C19_OneFetchPerAdmission ==
    [][/\ pops' <= accepted'
       /\ ~crashed' => pops' + Cardinality(waiting') = accepted'
       /\ last'.op = "pop" =>
              /\ pops' = pops + 1
              /\ \E w \in waiting :
                     /\ w.mention = last'.mention
                     /\ waiting' = waiting \ {w}
       /\ (last'.op = "fetched" /\ FailedOutcome(last'.response)) =>
              UNCHANGED <<queue, received, waiting, pops, accepted>>
       /\ Len(queue') > Len(queue) =>
              /\ last'.op = "submit"
              /\ last'.status = 202
              /\ accepted' = accepted + 1
    ]_vars

\* The pair was verified and recorded, admitted again a day later and
\* fetched again, and that fetch failed: two admissions, two fetches, the
\* pair is not in the queue, and the Store has the entry of the first
C19_Witness ==
    /\ last.op = "fetched"
    /\ FailedOutcome(last.response)
    /\ pops = 2
    /\ accepted = 2
    /\ ~InQueue(last.mention)
    /\ \E i \in EntriesOf(last.mention) :
           /\ received[i].validatedAt = 0
           /\ now = 24 * 60 * 60 * 1000

----------------------------------------------------------------------------
\* What a file holds when it matches memory: JSON.stringify(received) in the
\* notifications file, JSON.stringify(failures) in the failures file
Serialized(file) ==
    IF file = "mentions" THEN Stringify(received) ELSE failures

\* C20: durable state matches memory at quiescence: when a write has completed
\* and no run of the verifier is in progress any more, the file written holds
\* the serialization of what is in memory, however the runs and their writes
\* were interleaved.
C20_DurableMatchesMemory ==
    (last.op = "end" /\ last.how = "returned" /\ runs = EmptyBag) =>
        \A file \in last.issued : files[file] = Serialized(file)

====
